---- MODULE Spec2Model ----
(***************************************************************************)
(* japa: consolidation of raw CSV exports into the canonical store.        *)
(*                                                                         *)
(* Three revisions of the consolidation script live in the repository:     *)
(*   bin/merge.sh       cat "$file" >> store ; echo "" >> store ; rm       *)
(*   rollup.sh          tail -n +2 "$file" >> store && echo && rm          *)
(*   bin/merge_test.sh  as rollup.sh, on data/test (src/unnamed/part_000)  *)
(* A file is modelled as the sequence of its rows and line terminators, a  *)
(* script as a process that runs one command per step.                     *)
(***************************************************************************)
EXTENDS Naturals, Integers, Sequences, FiniteSets, TLC

\* ------------------------------------------------------------------ bounds
\* Number of consolidate runs that are started.
MaxRuns == 2
\* Number of raw sources that ever arrive in data/raw/.
MaxArrivals == 2

\* ------------------------------------------------------------ file contents
\* A line terminator, the header line time,strikes,length,value, a data row
\* (day, rec) standing for one (time,strikes,length,value) tuple of that
\* calendar day, and a data row with a field that fails validation.
NL == [kind |-> "nl", day |-> 0, rec |-> 0]
HDR == [kind |-> "hdr", day |-> 0, rec |-> 0]
Row(d, n) == [kind |-> "row", day |-> d, rec |-> n]
Bad(d, n) == [kind |-> "bad", day |-> d, rec |-> n]

\* The raw sources that may arrive, in the order the glob data/raw/*.csv
\* lists them.
GlobOrder == <<"a.csv", "b.csv", "c.csv", "d.csv">>
Files == {GlobOrder[i] : i \in 1..Len(GlobOrder)}

\* The pattern itself: bash leaves data/raw/*.csv unexpanded when no file
\* matches it.
Pattern == "*.csv"

\* a.csv: as generateDayData writes a day: header, rows joined by "\n", no
\*        terminator after the last row.
\* b.csv: a second export of the same day that repeats row (1,1).
\* c.csv: no header line, its first line is a data row.
\* d.csv: one malformed row among valid ones.
Content(f) ==
    CASE f = "a.csv" -> <<HDR, NL, Row(1, 1), NL, Row(1, 2)>>
      [] f = "b.csv" -> <<HDR, NL, Row(1, 1), NL>>
      [] f = "c.csv" -> <<Row(2, 1), NL, Row(2, 2), NL>>
      [] f = "d.csv" -> <<HDR, NL, Row(3, 1), NL, Bad(3, 2), NL, Row(3, 3)>>
      [] OTHER -> <<>>

\* The store as the scripts ask for it, "create it with headers": the header
\* line, written with or without its line terminator.
StoreTemplates == {<<HDR, NL>>, <<HDR>>}

Scripts == {"merge", "rollup", "merge_test"}
Procs == {"p1", "p2"}

VARIABLES
    storeExists,   \* data/data.csv is a regular file
    store,         \* its content
    origin,        \* for each element of store, the file it was copied from
    pool,          \* the files data/raw/*.csv
    unreadable,    \* the files that cat and tail fail to read
    arrived,       \* every file that ever was in the pool
    runs,          \* number of runs started
    pc,            \* per process: the command it is at
    script,        \* per process: the script it runs
    files,         \* per process: the expansion of the for loop's glob
    idx,           \* per process: position in files
    exitCode,      \* per process: exit code of the script, -1 while it runs
    message,       \* per process: the last line the script printed
    appends,       \* per file: number of cat/tail commands that copied it
    failed,        \* per process: files whose cat/tail failed in this run
    mutated,       \* per process: the run has written to the store or pool
    base,          \* per process: length of the store when the run found it
    added,         \* per process, while it runs: a file has arrived since
                   \* it started
    snapshot,      \* the text loadCSV fetched
    snapRun,       \* the run in flight when it was fetched: -1 not fetched
                   \* yet, 0 fetched while no run was in flight
    table,         \* the rows of the DuckDB table data
    page,          \* "start" until loadData has set up the charts
    yearSelect,    \* the year <select>: value, disabled, options
    monthSelect,   \* the month <select>: value, disabled
    rangeSelect,   \* the range <select>: value
    uc,            \* per updateCharts call: the await it is at, its locals
    combinedChart, \* window.combinedChart.data: one entry per bucket
    hourlyChart,   \* window.hourlyChart.data.datasets[0].data
    rejected,      \* the last updateCharts call to end threw
    pending        \* the calls awaiting conn.query, in the order of their
                   \* queries on the connection

\* The page: what loadCSV fetched.
pagevars == <<snapshot, snapRun>>

\* The charts and their filter controls.
chartvars == <<table, page, yearSelect, monthSelect, rangeSelect, uc,
               combinedChart, hourlyChart, rejected, pending>>

\* The invocations of updateCharts that can be in flight together.
Calls == {"u1", "u2"}

vars == <<storeExists, store, origin, pool, unreadable, arrived, runs, pc,
          script, files, idx, exitCode, message, appends, failed,
          mutated, base, added, pagevars, chartvars>>

\* ------------------------------------------------------------ text helpers
RECURSIVE FirstNL(_, _)
\* Position of the first line terminator of s at or after i, 0 when none.
FirstNL(s, i) ==
    IF i > Len(s) THEN 0
    ELSE IF s[i] = NL THEN i
    ELSE FirstNL(s, i + 1)

\* cat "$file"
Cat(s) == s

\* tail -n +2 "$file": the content from the second line on.
Tail2(s) ==
    LET n == FirstNL(s, 1)
    IN IF n = 0 THEN <<>> ELSE SubSeq(s, n + 1, Len(s))

Const(n, v) == [i \in 1..n |-> v]

\* ---------------------------------------------------------------- the state
\* The page before loadData has run: both charts are created empty, the
\* hourly one with Array(24).fill(0), and no filter is chosen.
PageInit ==
    /\ page = "start"
    /\ yearSelect = [value |-> "", disabled |-> FALSE, options |-> {}]
    /\ monthSelect = [value |-> "all", disabled |-> FALSE]
    /\ rangeSelect = [value |-> ""]
    /\ uc = [c \in Calls |->
                [pc |-> "idle", year |-> 0, month |-> 0, range |-> 0]]
    /\ combinedChart = <<>>
    /\ hourlyChart = [h \in 0..23 |-> 0]
    /\ rejected = FALSE
    /\ pending = <<>>

Init ==
    /\ storeExists \in BOOLEAN
    /\ store \in IF storeExists THEN StoreTemplates ELSE {<<>>}
    /\ origin = Const(Len(store), "store")
    /\ pool = {}
    /\ unreadable = {}
    /\ arrived = {}
    /\ runs = 0
    /\ pc = [p \in Procs |-> "idle"]
    /\ script = [p \in Procs |-> "merge"]
    /\ files = [p \in Procs |-> <<>>]
    /\ idx = [p \in Procs |-> 0]
    /\ exitCode = [p \in Procs |-> -1]
    /\ message = [p \in Procs |-> "none"]
    /\ appends = [f \in Files |-> 0]
    /\ failed = [p \in Procs |-> {}]
    /\ mutated = [p \in Procs |-> FALSE]
    /\ base = [p \in Procs |-> 0]
    /\ added = [p \in Procs |-> FALSE]
    /\ snapshot = <<>>
    /\ snapRun = -1
    /\ table = <<>>
    /\ PageInit

\* ---------------------------------------------------------- the environment
\* A raw source is written into data/raw/ (bin/fake.js, or the exporter).
\* Every file arrives once; it may be one the scripts cannot read.
Arrive(f, readable) ==
    /\ f \in Files \ arrived
    /\ Cardinality(arrived) < MaxArrivals
    /\ pool' = pool \cup {f}
    /\ arrived' = arrived \cup {f}
    /\ unreadable' = IF readable THEN unreadable ELSE unreadable \cup {f}
    /\ added' = [p \in Procs |-> pc[p] \notin {"idle", "done"}]
    /\ UNCHANGED <<storeExists, store, origin, runs, pc, script, files, idx,
                   exitCode, message, appends, failed, mutated,
                   base, pagevars, chartvars>>

\* The operator follows the error message and creates the store.
CreateStore(t) ==
    /\ ~storeExists
    /\ t \in StoreTemplates
    /\ storeExists' = TRUE
    /\ store' = t
    /\ origin' = Const(Len(t), "store")
    /\ UNCHANGED <<pool, unreadable, arrived, runs, pc, script, files, idx,
                   exitCode, message, appends, failed, mutated,
                   base, added, pagevars, chartvars>>

\* -------------------------------------------------------------- the scripts
InFlight(p) == pc[p] \notin {"idle", "done"}

NoRunInFlight == \A q \in Procs : ~InFlight(q)

\* Processes that run no script are interchangeable: the first one takes
\* the next run.
ProcOrder == <<"p1", "p2">>
FirstFree(p) ==
    \E i \in 1..Len(ProcOrder) :
        /\ ProcOrder[i] = p
        /\ ~InFlight(p)
        /\ \A j \in 1..(i - 1) : InFlight(ProcOrder[j])

\* The existence check left out: the script goes on without a store.
StoreMissingIgnored == FALSE

\* [ ! -f "$OUTPUT_FILE" ]
StoreMissing == ~storeExists

\* The listing check left out: the loop runs on an empty pool.
NoCsvFilesIgnored == FALSE

\* ! ls "$RAW_DIR"/*.csv
NoCsvFiles == pool = {}

\* for file in "$RAW_DIR"/*.csv: the matching files in order, or the
\* pattern itself when nothing matches.
Glob ==
    IF pool = {} THEN <<Pattern>>
    ELSE SelectSeq(GlobOrder, LAMBDA f : f \in pool)

\* cat and tail read the file.
CanRead(f) == f \in pool /\ f \notin unreadable

\* What the script copies of a file: merge.sh all of it, the others all but
\* its first line.
Copied(s, f) == IF s = "merge" THEN Cat(Content(f)) ELSE Tail2(Content(f))

\* A failed copy ends the loop, as under set -e or "|| break".
AfterCopyBreak(s, ok) == IF ok THEN "echo" ELSE "final"

\* The command after the copy: merge.sh separates its commands by newlines,
\* the others chain them with &&.
AfterCopy(s, ok) ==
    IF s = "merge" THEN "echo"
    ELSE IF ok THEN "echo" ELSE "next"

\* rm never reached: the loop goes on to the next file after echo.
AfterEchoNoRm(s, ok) == "next"

\* The command after echo: rm, in the && chain only when echo succeeded.
AfterEcho(s, ok) ==
    IF s = "merge" THEN "rm"
    ELSE IF ok THEN "rm" ELSE "next"

\* rm left out: the file stays in data/raw/.
RemovedNothing(f) == pool

\* rm "$file"
Removed(f) == pool \ {f}

\* pc and idx of process p when it goes on to command c of the loop body,
\* "next" being the next iteration or the end of the loop.
Goto(p, c) ==
    IF c # "next" THEN /\ pc' = [pc EXCEPT ![p] = c]
                       /\ idx' = idx
    ELSE IF idx[p] < Len(files[p])
         THEN /\ pc' = [pc EXCEPT ![p] = "copy"]
              /\ idx' = [idx EXCEPT ![p] = @ + 1]
         ELSE /\ pc' = [pc EXCEPT ![p] = "final"]
              /\ idx' = idx

\* The run has changed the store or the pool.
Touched(p) ==
    mutated' = [mutated EXCEPT ![p] =
                   @ \/ store' # store \/ storeExists' # storeExists
                     \/ pool' # pool]

\* What is remembered of the start of run p is dropped when the run ends.
Forget(p, ends) ==
    IF ends THEN added' = [added EXCEPT ![p] = FALSE]
    ELSE UNCHANGED added

Start(p, s) ==
    /\ FirstFree(p)
    /\ runs < MaxRuns
    /\ runs' = runs + 1
    /\ pc' = [pc EXCEPT ![p] = "check_store"]
    /\ script' = [script EXCEPT ![p] = s]
    /\ files' = [files EXCEPT ![p] = <<>>]
    /\ idx' = [idx EXCEPT ![p] = 0]
    /\ exitCode' = [exitCode EXCEPT ![p] = -1]
    /\ message' = [message EXCEPT ![p] = "none"]
    /\ failed' = [failed EXCEPT ![p] = {}]
    /\ mutated' = [mutated EXCEPT ![p] = FALSE]
    /\ added' = [added EXCEPT ![p] = FALSE]
    /\ UNCHANGED <<storeExists, store, origin, pool, unreadable, arrived,
                   appends,
                   base, pagevars, chartvars>>

\* if [ ! -f store ]; then echo "Error: ..."; exit 1; fi
CheckStore(p) ==
    /\ pc[p] = "check_store"
    /\ IF StoreMissing
       THEN /\ message' = [message EXCEPT ![p] = "missing_store"]
            /\ exitCode' = [exitCode EXCEPT ![p] = 1]
            /\ pc' = [pc EXCEPT ![p] = "done"]
            /\ base' = base
       ELSE /\ pc' = [pc EXCEPT ![p] = "check_pool"]
            /\ base' = [base EXCEPT ![p] = Len(store)]
            /\ UNCHANGED <<message, exitCode>>
    /\ Forget(p, StoreMissing)
    /\ UNCHANGED <<storeExists, store, origin, pool, unreadable, arrived,
                   runs, script, files, idx, appends, failed,
                   mutated, pagevars, chartvars>>

\* if ! ls raw/*.csv; then echo "No CSV files found"; exit 0; fi
CheckPool(p) ==
    /\ pc[p] = "check_pool"
    /\ IF NoCsvFiles
       THEN /\ message' = [message EXCEPT ![p] = "no_files"]
            /\ exitCode' = [exitCode EXCEPT ![p] = 0]
            /\ pc' = [pc EXCEPT ![p] = "done"]
       ELSE /\ pc' = [pc EXCEPT ![p] = "glob"]
            /\ UNCHANGED <<message, exitCode>>
    /\ Forget(p, NoCsvFiles)
    /\ UNCHANGED <<storeExists, store, origin, pool, unreadable, arrived,
                   runs, script, files, idx, appends, failed,
                   mutated,
                   base, pagevars, chartvars>>

\* for file in raw/*.csv; do
ExpandGlob(p) ==
    /\ pc[p] = "glob"
    /\ files' = [files EXCEPT ![p] = Glob]
    /\ idx' = [idx EXCEPT ![p] = 1]
    /\ pc' = [pc EXCEPT ![p] = "copy"]
    /\ UNCHANGED <<storeExists, store, origin, pool, unreadable, arrived,
                   runs, script, exitCode, message, appends, failed,
                   mutated,
                   base, added, pagevars, chartvars>>

\* The redirection > in place of >>: the store is overwritten.
Overwritten(text, data) == data

\* >> "$OUTPUT_FILE"
Appended(text, data) == text \o data

\* cat "$file" >> store, tail -n +2 "$file" >> store. The redirection
\* creates the store when it is absent.
Copy(p) ==
    /\ pc[p] = "copy"
    /\ LET f == files[p][idx[p]]
           ok == CanRead(f)
           data == IF ok THEN Copied(script[p], f) ELSE <<>>
       IN /\ storeExists' = TRUE
          /\ store' = Appended(store, data)
          /\ origin' = origin \o Const(Len(data), f)
          /\ appends' = IF ok THEN [appends EXCEPT ![f] = @ + 1] ELSE appends
          /\ failed' = IF ok THEN failed
                       ELSE [failed EXCEPT ![p] = @ \cup {f}]
          /\ Goto(p, AfterCopy(script[p], ok))
    /\ UNCHANGED <<pool, unreadable, arrived, runs, script, files, exitCode,
                   message,
                   base, added, pagevars, chartvars>>
    /\ Touched(p)

\* echo "" left out of the loop body: nothing is appended.
EchoNothing(p) ==
    /\ pc[p] = "echo"
    /\ Goto(p, AfterEcho(script[p], TRUE))
    /\ UNCHANGED <<storeExists, store, origin, pool, unreadable, arrived,
                   runs, script, files, exitCode, message, appends, failed,
                   base, added, pagevars, chartvars>>
    /\ Touched(p)

\* echo "" >> store
Echo(p) ==
    /\ pc[p] = "echo"
    /\ storeExists' = TRUE
    /\ store' = Appended(store, <<NL>>)
    /\ origin' = origin \o <<"echo">>
    /\ Goto(p, AfterEcho(script[p], TRUE))
    /\ UNCHANGED <<pool, unreadable, arrived, runs, script, files, exitCode,
                   message, appends, failed,
                   base, added, pagevars, chartvars>>
    /\ Touched(p)

\* rm "$file"
Rm(p) ==
    /\ pc[p] = "rm"
    /\ pool' = Removed(files[p][idx[p]])
    /\ Goto(p, "next")
    /\ UNCHANGED <<storeExists, store, origin, unreadable, arrived, runs,
                   script, files, exitCode, message, appends, failed,
                   base, added, pagevars, chartvars>>
    /\ Touched(p)

\* done; echo "Merged raw CSVs into data.csv and cleared raw/."
Final(p) ==
    /\ pc[p] = "final"
    /\ message' = [message EXCEPT ![p] = "merged_all"]
    /\ exitCode' = [exitCode EXCEPT ![p] = 0]
    /\ pc' = [pc EXCEPT ![p] = "done"]
    /\ idx' = [idx EXCEPT ![p] = 0]
    /\ Forget(p, TRUE)
    /\ UNCHANGED <<storeExists, store, origin, pool, unreadable, arrived,
                   runs, script, files, appends, failed, mutated,
                   base, pagevars, chartvars>>

\* make merge, make merge-test, bash rollup.sh, typed one after the other: a
\* run starts when the one before it has ended.
StartNext(p, s) == NoRunInFlight /\ Start(p, s)

Next ==
    \/ \E f \in Files, r \in BOOLEAN : Arrive(f, r)
    \/ \E t \in StoreTemplates : CreateStore(t)
    \/ \E p \in Procs, s \in Scripts : StartNext(p, s)
    \/ \E p \in Procs : CheckStore(p)
    \/ \E p \in Procs : CheckPool(p)
    \/ \E p \in Procs : ExpandGlob(p)
    \/ \E p \in Procs : Copy(p)
    \/ \E p \in Procs : Echo(p)
    \/ \E p \in Procs : Rm(p)
    \/ \E p \in Procs : Final(p)

Spec == Init /\ [][Next]_vars

\* A script that has been started runs its commands one after the other
\* until it exits: the shell never stops between two commands.
RunStep(p) ==
    \/ CheckStore(p)
    \/ CheckPool(p)
    \/ ExpandGlob(p)
    \/ Copy(p)
    \/ Echo(p)
    \/ Rm(p)
    \/ Final(p)

SpecFair == Spec /\ \A p \in Procs : WF_vars(RunStep(p))

\* Nothing in the scripts keeps two of them from running at once: make merge
\* typed in two shells, or by a scheduled job and by hand.
NextConc ==
    \/ \E f \in Files, r \in BOOLEAN : Arrive(f, r)
    \/ \E t \in StoreTemplates : CreateStore(t)
    \/ \E p \in Procs, s \in Scripts : Start(p, s)
    \/ \E p \in Procs : CheckStore(p)
    \/ \E p \in Procs : CheckPool(p)
    \/ \E p \in Procs : ExpandGlob(p)
    \/ \E p \in Procs : Copy(p)
    \/ \E p \in Procs : Echo(p)
    \/ \E p \in Procs : Rm(p)
    \/ \E p \in Procs : Final(p)

SpecConc == Init /\ [][NextConc]_vars

\* ------------------------------------------------------------------ the page
\* loadCSV: fetch(dataSource), response.text(). The page fetches the store
\* once, whatever the scripts are doing; a failed fetch loads nothing.
LoadCSV ==
    /\ snapRun = -1
    /\ storeExists
    /\ snapshot' = store
    /\ snapRun' = IF NoRunInFlight THEN 0 ELSE runs
    /\ UNCHANGED <<storeExists, store, origin, pool, unreadable, arrived,
                   runs, pc, script, files, idx, exitCode, message, appends,
                   failed, mutated, base, added, chartvars>>

NextRead ==
    \/ \E f \in Files, r \in BOOLEAN : Arrive(f, r)
    \/ \E t \in StoreTemplates : CreateStore(t)
    \/ \E p \in Procs, s \in Scripts : StartNext(p, s)
    \/ \E p \in Procs : CheckStore(p)
    \/ \E p \in Procs : CheckPool(p)
    \/ \E p \in Procs : ExpandGlob(p)
    \/ \E p \in Procs : Copy(p)
    \/ \E p \in Procs : Echo(p)
    \/ \E p \in Procs : Rm(p)
    \/ \E p \in Procs : Final(p)
    \/ LoadCSV

SpecRead == Init /\ [][NextRead]_vars

\* --------------------------------------------------------------- the table
\* A row of the table data: the fields the queries cut out of time_str
\* ("YYYY-MM-DD HH:MM:SS") with SUBSTRING and CAST, and value.
Rec(y, m, d, h, v) ==
    [year |-> y, month |-> m, day |-> d, hour |-> h, value |-> v]

\* The rows a store is made of here.
Universe ==
    << Rec(2024, 1, 1, 3, 12),  Rec(2024, 1, 1, 6, 13),
       Rec(2024, 12, 15, 3, 15), Rec(2025, 1, 15, 6, 13),
       Rec(2025, 3, 1, 3, 12),  Rec(2025, 3, 31, 4, 15) >>

MaxRows == 3

\* CREATE TABLE data AS SELECT ... FROM read_csv_auto('data.csv'): up to
\* MaxRows rows. No query depends on the order of the rows (each has GROUP BY
\* and ORDER BY), so the rows are taken in one order only.
Tables ==
    UNION { { [i \in 1..n |-> Universe[ix[i]]] :
                ix \in { f \in [1..n -> 1..Len(Universe)] :
                           \A i \in 1..(n - 1) : f[i] <= f[i + 1] } } :
            n \in 0..MaxRows }

\* parseInt of a string that holds no number, and null: the code only tests
\* them for truth and compares them with years and months, none of which is 0.
NaN == 0

\* parseInt(select.value)
ParseInt(s) ==
    CASE s = "1" -> 1
      [] s = "3" -> 3
      [] s = "2024" -> 2024
      [] s = "2025" -> 2025
      [] OTHER -> NaN

\* option.value = year; `${selectedYear}`
YearText(n) ==
    CASE n = 2024 -> "2024"
      [] n = 2025 -> "2025"
      [] OTHER -> "NaN"

Truthy(n) == n # NaN

\* The <option>s of monthSelect and rangeSelect the model chooses from.
MonthOptions == {"all", "1", "3"}
RangeOptions == {"", "1", "3"}

\* ------------------------------------------------------------- the calendar
\* Dates are held as the number YYYYMMDD, which orders as the strings
\* "YYYY-MM-DD" and as the Dates new Date("YYYY-MM-DD") do. The host's time
\* zone is UTC, so the local fields setMonth works on are the UTC ones.
DayKey(r) == r.year * 10000 + r.month * 100 + r.day

IsLeap(y) == (y % 4 = 0 /\ y % 100 # 0) \/ y % 400 = 0

DaysIn(y, m) ==
    CASE m = 2 -> IF IsLeap(y) THEN 29 ELSE 28
      [] m \in {4, 6, 9, 11} -> 30
      [] OTHER -> 31

RECURSIVE DayOfYear(_, _, _)
\* 1 for January 1.
DayOfYear(y, m, d) ==
    IF m = 1 THEN d ELSE DaysIn(y, m - 1) + DayOfYear(y, m - 1, d)

RECURSIVE YearStart(_)
\* Days from Monday 2024-01-01 to January 1 of y (y >= 2024).
YearStart(y) ==
    IF y <= 2024 THEN 0
    ELSE YearStart(y - 1) + (IF IsLeap(y - 1) THEN 366 ELSE 365)

\* 0 for Monday .. 6 for Sunday.
WeekDay(y, m, d) == (YearStart(y) + DayOfYear(y, m, d) - 1) % 7

\* STRFTIME(time_str, '%W'): week of the year, weeks starting on Monday, the
\* days before the first Monday in week 0.
WeekOfYear(r) ==
    (DayOfYear(r.year, r.month, r.day) - 1 + 7
        - WeekDay(r.year, r.month, r.day)) \div 7

\* STRFTIME(time_str, '%Y-W%W') as the number YYYYWW.
WeekKey(r) == r.year * 100 + WeekOfYear(r)

\* startDate.setMonth(startDate.getMonth() - range): the day of the month is
\* kept, and a day the target month does not have runs over into the next.
SetMonthBack(k, range) ==
    IF k = NaN THEN NaN
    ELSE LET y  == k \div 10000
             m  == (k \div 100) % 100
             d  == k % 100
             mi == (m - 1) - range
             ty == y + (mi \div 12)
             tm == (mi % 12) + 1
          IN IF d <= DaysIn(ty, tm)
             THEN ty * 10000 + tm * 100 + d
             ELSE IF tm = 12
                  THEN (ty + 1) * 10000 + 100 + (d - DaysIn(ty, tm))
                  ELSE ty * 10000 + (tm + 1) * 100 + (d - DaysIn(ty, tm))

\* -------------------------------------------------------------- the queries
RECURSIVE Sorted(_)
\* ORDER BY: the numbers of S in ascending order.
Sorted(S) ==
    IF S = {} THEN <<>>
    ELSE LET m == CHOOSE x \in S : \A y \in S : x <= y
         IN <<m>> \o Sorted(S \ {m})

RECURSIVE SumValue(_)
\* SUM(value)
SumValue(rows) ==
    IF rows = <<>> THEN 0 ELSE Head(rows).value + SumValue(Tail(rows))

\* Math.max(...rows.map(r => new Date(r.day))): -Infinity, hence an Invalid
\* Date, when there is no row.
LatestDay(rows) ==
    IF rows = <<>> THEN NaN
    ELSE CHOOSE k \in {rows[i].day : i \in DOMAIN rows} :
            \A i \in DOMAIN rows : rows[i].day <= k

\* dailyDataQuery: one row per day, in the order of the days.
DailyData(t) ==
    LET keys == Sorted({DayKey(t[i]) : i \in DOMAIN t})
    IN [j \in 1..Len(keys) |->
          LET g == SelectSeq(t, LAMBDA r : DayKey(r) = keys[j])
          IN [kind |-> "day", day |-> keys[j], year |-> g[1].year,
              month |-> g[1].month, rounds |-> Len(g),
              total_value |-> SumValue(g)]]

\* weeklyQuery: one row per week of the selected year, in the order of the
\* weeks. The row has no day and no month; the model keeps its week in day.
WeeklyData(t, selectedYear) ==
    LET w == SelectSeq(t, LAMBDA r : YearText(r.year) = YearText(selectedYear))
        keys == Sorted({WeekKey(w[i]) : i \in DOMAIN w})
    IN [j \in 1..Len(keys) |->
          LET g == SelectSeq(w, LAMBDA r : WeekKey(r) = keys[j])
          IN [kind |-> "week", day |-> keys[j], year |-> g[1].year,
              month |-> NaN, rounds |-> Len(g),
              total_value |-> SumValue(g)]]

\* const useWeekly = !range && !selectedMonth
RangeWinsNot(selectedMonth, range) == ~Truthy(selectedMonth)
UseWeekly(selectedMonth, range) == ~Truthy(range) /\ ~Truthy(selectedMonth)

\* The filter applied to the daily rows (if (!useWeekly) { ... }).
FilterDailyNone(rows, selectedYear, selectedMonth, range) == rows
FilterDaily(rows, selectedYear, selectedMonth, range) ==
    IF Truthy(range)
    THEN LET startDate == SetMonthBack(LatestDay(rows), range)
         IN SelectSeq(rows, LAMBDA r : startDate # NaN /\ r.day >= startDate)
    ELSE SelectSeq(rows, LAMBDA r :
            /\ r.year = selectedYear
            /\ (~Truthy(selectedMonth) \/ r.month = selectedMonth))

\* filteredDailyData: the rows the combined chart is given.
FilteredData(t, selectedYear, selectedMonth, range) ==
    IF UseWeekly(selectedMonth, range)
    THEN WeeklyData(t, selectedYear)
    ELSE FilterDaily(DailyData(t), selectedYear, selectedMonth, range)

\* labels, datasets[0].data and datasets[0].totalValues of the combined chart.
ChartData(rows) ==
    [j \in 1..Len(rows) |->
        [kind |-> rows[j].kind, label |-> rows[j].day,
         rounds |-> rows[j].rounds, totalValue |-> rows[j].total_value]]

\* startDate.toISOString() throws a RangeError on an Invalid Date.
HourlyThrows(t, range) ==
    Truthy(range) /\ LatestDay(DailyData(t)) = NaN

\* The WHERE clause of hourlyQuery: none when range, year and month are all
\* falsy, else the conditions joined by AND; the year condition is pushed
\* whether or not a range is set.
YearConditionNone(r, selectedYear) == TRUE
YearCondition(r, selectedYear) ==
    YearText(r.year) = YearText(selectedYear)

HourlyWhere(t, r, selectedYear, selectedMonth, range) ==
    IF ~(Truthy(range) \/ Truthy(selectedYear) \/ Truthy(selectedMonth))
    THEN TRUE
    ELSE /\ Truthy(range) =>
               DayKey(r) >= SetMonthBack(LatestDay(DailyData(t)), range)
         /\ YearCondition(r, selectedYear)
         /\ Truthy(selectedMonth) => r.month = selectedMonth

\* hourlyQuery: one row per hour that has a matching record.
HourlyData(t, selectedYear, selectedMonth, range) ==
    LET w == SelectSeq(t, LAMBDA r :
                 HourlyWhere(t, r, selectedYear, selectedMonth, range))
        keys == Sorted({w[i].hour : i \in DOMAIN w})
    IN [j \in 1..Len(keys) |->
          [hour |-> keys[j],
           rounds |-> Len(SelectSeq(w, LAMBDA r : r.hour = keys[j]))]]

\* Array(24).fill(0)
NoFill == <<>>
ZeroFill == [h \in 0..23 |-> 0]

RECURSIVE HourlyRounds(_, _)
\* hourlyData.forEach(row => { if (row.hour >= 0 && row.hour < 24)
\*     hourlyRounds[row.hour] = row.rounds; })
HourlyRounds(acc, hourlyData) ==
    IF hourlyData = <<>> THEN acc
    ELSE LET row == Head(hourlyData)
         IN HourlyRounds(
               IF row.hour >= 0 /\ row.hour < 24
               THEN [h \in DOMAIN acc \cup {row.hour} |->
                        IF h = row.hour THEN row.rounds ELSE acc[h]]
               ELSE acc,
               Tail(hourlyData))

\* ------------------------------------------------------------- updateCharts
Quiet == \A c \in Calls : uc[c].pc = "idle"

CallOrder == <<"u1", "u2">>

\* The call slot an invocation takes: the first that is not in flight.
FreeCall(c) ==
    /\ uc[c].pc = "idle"
    /\ \A i, j \in DOMAIN CallOrder :
          (CallOrder[j] = c /\ i < j) => uc[CallOrder[i]].pc # "idle"

\* updateCharts() up to its first await, called with the selects holding
\* yv, mv and rv. With weekly buckets it stops at the weekly query; else it
\* filters the daily rows, updates the combined chart and stops at the hourly
\* query, unless building that query throws.
Invoke(yv, mv, rv) ==
    \E c \in Calls :
        /\ FreeCall(c)
        /\ LET selectedYear == ParseInt(yv)
               selectedMonth == IF mv = "all" THEN NaN ELSE ParseInt(mv)
               range == ParseInt(rv)
               locals == [year |-> selectedYear, month |-> selectedMonth,
                          range |-> range]
           IN IF UseWeekly(selectedMonth, range)
              THEN /\ uc' = [uc EXCEPT ![c] = [pc |-> "weekly"] @@ locals]
                   /\ pending' = Append(pending, c)
                   /\ UNCHANGED <<combinedChart, rejected>>
              ELSE /\ combinedChart' = ChartData(
                          FilteredData(table, selectedYear, selectedMonth,
                                       range))
                   /\ IF HourlyThrows(table, range)
                      THEN /\ rejected' = TRUE
                           /\ UNCHANGED <<uc, pending>>
                      ELSE /\ rejected' = rejected
                           /\ pending' = Append(pending, c)
                           /\ uc' = [uc EXCEPT
                                       ![c] = [pc |-> "hourly"] @@ locals]
        /\ UNCHANGED hourlyChart

storevars == <<storeExists, store, origin, pool, unreadable, arrived, runs,
               pc, script, files, idx, exitCode, message, appends, failed,
               mutated, base, added, pagevars>>

\* loadData from the year options on: one option per year of the daily rows,
\* yearSelect.value = '2025' (which selects nothing when 2025 is no option),
\* the listeners, and the initial updateCharts().
LoadData ==
    /\ page = "start"
    /\ page' = "ready"
    /\ LET daily == DailyData(table)
           options == {YearText(daily[i].year) : i \in DOMAIN daily}
           value == IF "2025" \in options THEN "2025" ELSE ""
       IN /\ yearSelect' = [value |-> value, disabled |-> FALSE,
                            options |-> options]
          /\ Invoke(value, monthSelect.value, rangeSelect.value)
    /\ UNCHANGED <<table, monthSelect, rangeSelect, storevars>>

\* The connection answers its queries in the order they were sent: the call
\* that resumes is the one whose query is the oldest.
Resumes(c) == pending # <<>> /\ Head(pending) = c

\* The weekly query has returned: the combined chart gets the weekly rows and
\* the call goes on to the hourly query.
WeeklyDone(c) ==
    /\ uc[c].pc = "weekly"
    /\ Resumes(c)
    /\ pending' = Append(Tail(pending), c)
    /\ combinedChart' = ChartData(
            FilteredData(table, uc[c].year, uc[c].month, uc[c].range))
    /\ uc' = [uc EXCEPT ![c].pc = "hourly"]
    /\ UNCHANGED <<table, page, yearSelect, monthSelect, rangeSelect,
                   hourlyChart, rejected, storevars>>

\* The hourly query has returned: the hourly chart gets the 24 counts.
HourlyDoneOnTop(c) ==
    /\ uc[c].pc = "hourly"
    /\ Resumes(c)
    /\ pending' = Tail(pending)
    /\ hourlyChart' = HourlyRounds(hourlyChart,
            HourlyData(table, uc[c].year, uc[c].month, uc[c].range))
    /\ uc' = [uc EXCEPT ![c].pc = "idle"]
    /\ rejected' = FALSE
    /\ UNCHANGED <<table, page, yearSelect, monthSelect, rangeSelect,
                   combinedChart, storevars>>

HourlyDone(c) ==
    /\ uc[c].pc = "hourly"
    /\ Resumes(c)
    /\ pending' = Tail(pending)
    /\ hourlyChart' = HourlyRounds(ZeroFill,
            HourlyData(table, uc[c].year, uc[c].month, uc[c].range))
    /\ uc' = [uc EXCEPT ![c].pc = "idle"]
    /\ rejected' = FALSE
    /\ UNCHANGED <<table, page, yearSelect, monthSelect, rangeSelect,
                   combinedChart, storevars>>

\* yearSelect 'change'
YearChange(y) ==
    /\ page = "ready"
    /\ ~yearSelect.disabled
    /\ y \in yearSelect.options /\ y # yearSelect.value
    /\ yearSelect' = [yearSelect EXCEPT !.value = y]
    /\ monthSelect' = [value |-> "all", disabled |-> FALSE]
    /\ Invoke(y, "all", rangeSelect.value)
    /\ UNCHANGED <<table, page, rangeSelect, storevars>>

\* monthSelect 'change'
MonthChange(m) ==
    /\ page = "ready"
    /\ ~monthSelect.disabled
    /\ m \in MonthOptions /\ m # monthSelect.value
    /\ monthSelect' = [monthSelect EXCEPT !.value = m]
    /\ Invoke(yearSelect.value, m, rangeSelect.value)
    /\ UNCHANGED <<table, page, yearSelect, rangeSelect, storevars>>

\* rangeSelect 'change'
RangeChange(r) ==
    /\ page = "ready"
    /\ r \in RangeOptions /\ r # rangeSelect.value
    /\ rangeSelect' = [value |-> r]
    /\ IF r # ""
       THEN /\ yearSelect' = [yearSelect EXCEPT !.disabled = TRUE]
            /\ monthSelect' = [value |-> "all", disabled |-> TRUE]
       ELSE /\ yearSelect' = [yearSelect EXCEPT !.disabled = FALSE]
            /\ monthSelect' = [monthSelect EXCEPT !.disabled = FALSE]
    /\ Invoke(yearSelect.value, monthSelect'.value, r)
    /\ UNCHANGED <<table, page, storevars>>

\* The page over a loaded table, the scripts at rest.
InitQuery ==
    /\ storeExists = TRUE
    /\ store = <<HDR, NL>>
    /\ origin = Const(Len(store), "store")
    /\ pool = {}
    /\ unreadable = {}
    /\ arrived = {}
    /\ runs = 0
    /\ pc = [p \in Procs |-> "idle"]
    /\ script = [p \in Procs |-> "merge"]
    /\ files = [p \in Procs |-> <<>>]
    /\ idx = [p \in Procs |-> 0]
    /\ exitCode = [p \in Procs |-> -1]
    /\ message = [p \in Procs |-> "none"]
    /\ appends = [f \in Files |-> 0]
    /\ failed = [p \in Procs |-> {}]
    /\ mutated = [p \in Procs |-> FALSE]
    /\ base = [p \in Procs |-> 0]
    /\ added = [p \in Procs |-> FALSE]
    /\ snapshot = store
    /\ snapRun = 0
    /\ table \in Tables
    /\ PageInit

\* One filter change at a time: the user waits for the charts.
YearChangeNext(y) == Quiet /\ YearChange(y)
MonthChangeNext(m) == Quiet /\ MonthChange(m)
RangeChangeNext(r) == Quiet /\ RangeChange(r)

NextQuery ==
    \/ LoadData
    \/ \E c \in Calls : WeeklyDone(c)
    \/ \E c \in Calls : HourlyDone(c)
    \/ \E y \in {"2024", "2025"} : YearChangeNext(y)
    \/ \E m \in MonthOptions : MonthChangeNext(m)
    \/ \E r \in RangeOptions : RangeChangeNext(r)

SpecQuery == InitQuery /\ [][NextQuery]_vars

\* The listeners call updateCharts() whenever a selector changes, also while
\* an earlier call is at an await.
NextQueryConc ==
    \/ LoadData
    \/ \E c \in Calls : WeeklyDone(c)
    \/ \E c \in Calls : HourlyDone(c)
    \/ \E y \in {"2024", "2025"} : YearChange(y)
    \/ \E m \in MonthOptions : MonthChange(m)
    \/ \E r \in RangeOptions : RangeChange(r)

SpecQueryConc == InitQuery /\ [][NextQueryConc]_vars

\* ------------------------------------------- the first revision of the page
\* The first copy of loadData in app.js: daily buckets only, a year of 'all'
\* for no year, and listeners that leave the month selection as it is.

\* filteredDailyData of the first revision.
FilterDaily1(rows, selectedYear, selectedMonth, range) ==
    IF Truthy(range)
    THEN LET startDate == SetMonthBack(LatestDay(rows), range)
         IN SelectSeq(rows, LAMBDA r : startDate # NaN /\ r.day >= startDate)
    ELSE SelectSeq(rows, LAMBDA r :
            /\ (~Truthy(selectedYear) \/ r.year = selectedYear)
            /\ (~Truthy(selectedMonth) \/ r.month = selectedMonth))

\* The WHERE clause of the first revision's hourlyQuery: each condition is
\* pushed only when its filter is set.
HourlyWhere1(t, r, selectedYear, selectedMonth, range) ==
    /\ Truthy(range) =>
          DayKey(r) >= SetMonthBack(LatestDay(DailyData(t)), range)
    /\ Truthy(selectedYear) => YearText(r.year) = YearText(selectedYear)
    /\ Truthy(selectedMonth) => r.month = selectedMonth

HourlyData1(t, selectedYear, selectedMonth, range) ==
    LET w == SelectSeq(t, LAMBDA r :
                 HourlyWhere1(t, r, selectedYear, selectedMonth, range))
        keys == Sorted({w[i].hour : i \in DOMAIN w})
    IN [j \in 1..Len(keys) |->
          [hour |-> keys[j],
           rounds |-> Len(SelectSeq(w, LAMBDA r : r.hour = keys[j]))]]

\* updateCharts() of the first revision up to its await.
Invoke1(yv, mv, rv) ==
    \E c \in Calls :
        /\ FreeCall(c)
        /\ LET selectedYear == IF yv = "all" THEN NaN ELSE ParseInt(yv)
               selectedMonth == IF mv = "all" THEN NaN ELSE ParseInt(mv)
               range == ParseInt(rv)
               locals == [year |-> selectedYear, month |-> selectedMonth,
                          range |-> range]
           IN /\ combinedChart' = ChartData(
                     FilterDaily1(DailyData(table), selectedYear,
                                  selectedMonth, range))
              /\ IF HourlyThrows(table, range)
                 THEN /\ rejected' = TRUE
                      /\ UNCHANGED <<uc, pending>>
                 ELSE /\ rejected' = rejected
                      /\ pending' = Append(pending, c)
                      /\ uc' = [uc EXCEPT ![c] = [pc |-> "hourly"] @@ locals]
        /\ UNCHANGED hourlyChart

\* The first revision's loadData from the year options on: the options, the
\* listeners and the initial updateCharts(); the year selection stays the
\* page's own.
LoadData1 ==
    /\ page = "start"
    /\ page' = "ready"
    /\ LET daily == DailyData(table)
           options == {YearText(daily[i].year) : i \in DOMAIN daily}
       IN yearSelect' = [yearSelect EXCEPT !.options = options]
    /\ Invoke1(yearSelect.value, monthSelect.value, rangeSelect.value)
    /\ UNCHANGED <<table, monthSelect, rangeSelect, storevars>>

HourlyDone1(c) ==
    /\ uc[c].pc = "hourly"
    /\ Resumes(c)
    /\ pending' = Tail(pending)
    /\ hourlyChart' = HourlyRounds(ZeroFill,
            HourlyData1(table, uc[c].year, uc[c].month, uc[c].range))
    /\ uc' = [uc EXCEPT ![c].pc = "idle"]
    /\ rejected' = FALSE
    /\ UNCHANGED <<table, page, yearSelect, monthSelect, rangeSelect,
                   combinedChart, storevars>>

\* yearSelect.addEventListener('change', updateCharts); the option 'all' is
\* the one updateCharts tests for.
YearChange1(y) ==
    /\ page = "ready"
    /\ Quiet
    /\ ~yearSelect.disabled
    /\ y \in yearSelect.options \cup {"all"} /\ y # yearSelect.value
    /\ yearSelect' = [yearSelect EXCEPT !.value = y]
    /\ Invoke1(y, monthSelect.value, rangeSelect.value)
    /\ UNCHANGED <<table, page, monthSelect, rangeSelect, storevars>>

\* monthSelect.addEventListener('change', updateCharts)
MonthChange1(m) ==
    /\ page = "ready"
    /\ Quiet
    /\ ~monthSelect.disabled
    /\ m \in MonthOptions /\ m # monthSelect.value
    /\ monthSelect' = [monthSelect EXCEPT !.value = m]
    /\ Invoke1(yearSelect.value, m, rangeSelect.value)
    /\ UNCHANGED <<table, page, yearSelect, rangeSelect, storevars>>

\* rangeSelect 'change' of the first revision: the two selectors are disabled
\* or enabled, their values stay.
RangeChange1(r) ==
    /\ page = "ready"
    /\ Quiet
    /\ r \in RangeOptions /\ r # rangeSelect.value
    /\ rangeSelect' = [value |-> r]
    /\ yearSelect' = [yearSelect EXCEPT !.disabled = (r # "")]
    /\ monthSelect' = [monthSelect EXCEPT !.disabled = (r # "")]
    /\ Invoke1(yearSelect.value, monthSelect.value, r)
    /\ UNCHANGED <<table, page, storevars>>

NextQuery1 ==
    \/ LoadData1
    \/ \E c \in Calls : HourlyDone1(c)
    \/ \E y \in {"all", "2024", "2025"} : YearChange1(y)
    \/ \E m \in MonthOptions : MonthChange1(m)
    \/ \E r \in RangeOptions : RangeChange1(r)

SpecQuery1 == InitQuery /\ [][NextQuery1]_vars

\* ================================================================== claims
IsData(t) == t.kind \in {"row", "bad"}
HasMalformed(f) == \E i \in 1..Len(Content(f)) : Content(f)[i].kind = "bad"
StartsWithHeader(f) == Content(f) # <<>> /\ Content(f)[1] = HDR
\* The positions of the store that were copied from file f.
CopiedFrom(f) == {i \in 1..Len(store) : origin[i] = f}
\* Row t is written somewhere in text s.
Occurs(t, s) == \E i \in 1..Len(s) : s[i] = t
Listed(p) == {files[p][i] : i \in 1..Len(files[p])}
Ended(p) == pc[p] = "done"

\* C1: after a run, a raw source (one the scripts can read) that contains a
\* malformed row among valid rows has none of its rows in the store and,
\* once it has arrived, is still in the pool.
C1_AllOrNothing ==
    NoRunInFlight =>
        \A f \in Files \ unreadable :
            HasMalformed(f) =>
                /\ CopiedFrom(f) = {}
                /\ f \in arrived => f \in pool

\* C2: after a run, every data row of every source that was copied and
\* removed from the pool is in the store, whether the source starts with a
\* header line or with a data row.
C2_NoDataLoss ==
    NoRunInFlight =>
        \A f \in arrived \ pool :
            appends[f] >= 1 =>
                \A i \in 1..Len(Content(f)) :
                    IsData(Content(f)[i]) => Occurs(Content(f)[i], store)

\* C3: over any sequence of runs every source is copied into the store at
\* most once: the store holds no more elements of a source than the source
\* has, and a source that has been copied is out of the pool as soon as the
\* iteration that copied it has ended.
C3_NoDuplication ==
    \A f \in Files :
        /\ appends[f] <= 1
        /\ Cardinality(CopiedFrom(f)) <= Len(Content(f))
        /\ (appends[f] > 0 /\ f \in pool) =>
               \E p \in Procs : /\ pc[p] \in {"echo", "rm"}
                                /\ files[p][idx[p]] = f

\* A later run has gone through its loop after an earlier run merged f.
C3_Witness ==
    \E p \in Procs, f \in Files :
        /\ runs >= 2
        /\ Ended(p) /\ message[p] = "merged_all"
        /\ f \notin Listed(p)
        /\ appends[f] = 1 /\ f \notin pool

\* C4: a source that has been removed from the pool has been copied into
\* the store by a command that succeeded.
C4_RemovedOnlyAfterAppend ==
    \A f \in arrived \ pool : appends[f] >= 1

\* C5: when every source that arrived starts with the header line, the
\* store holds no header line after its own first line.
C5_NoHeaderInStore ==
    (\A f \in arrived : StartsWithHeader(f)) =>
        \A i \in 2..Len(store) : store[i] # HDR

\* C6 (invariant I1): the store holds no record twice that was copied from
\* two raw sources (which then cover the same calendar day).
C6_NoDuplicateRecords ==
    \A i, j \in 1..Len(store) :
        (i # j /\ store[i].kind = "row" /\ store[i] = store[j]) =>
            (origin[i] = origin[j] \/ origin[i] \notin Files
                                   \/ origin[j] \notin Files)

\* C7: a run that finds the store absent ends there with exit code 1: it
\* has written nothing and writes nothing, the store is not created and no
\* source leaves the pool.
C7_MissingStoreHalts ==
    [][\A p \in Procs :
          (pc[p] = "check_store" /\ pc'[p] # pc[p] /\ ~storeExists) =>
              /\ pc'[p] = "done"
              /\ exitCode'[p] = 1
              /\ message'[p] = "missing_store"
              /\ ~mutated[p] /\ ~mutated'[p]
              /\ ~storeExists'
              /\ UNCHANGED <<store, origin, pool>>]_vars

\* A run has ended on the missing store while sources were pending.
C7_Witness ==
    \E p \in Procs :
        /\ Ended(p) /\ message[p] = "missing_store" /\ exitCode[p] = 1
        /\ ~storeExists
        /\ pool # {}

\* C8 as stated: a run on a pool that has always been empty ends with the
\* zero-work success outcome, exit code 0.
C8_EmptyPoolSucceeds ==
    \A p \in Procs :
        (Ended(p) /\ arrived = {}) =>
            (exitCode[p] = 0 /\ message[p] = "no_files")

\* C8 amended: when the store exists, a run on an empty pool is a no-op that
\* reports success: the store check passes without writing, and the listing
\* check ends the run with exit code 0, the store and the pool unchanged.
C8_EmptyPoolNoOp ==
    [][\A p \in Procs :
          (pc'[p] # pc[p]) =>
              /\ (pc[p] = "check_store" /\ storeExists) =>
                     /\ pc'[p] = "check_pool"
                     /\ UNCHANGED <<storeExists, store, origin, pool>>
              /\ (pc[p] = "check_pool" /\ pool = {}) =>
                     /\ pc'[p] = "done"
                     /\ exitCode'[p] = 0
                     /\ message'[p] = "no_files"
                     /\ ~mutated'[p]
                     /\ pool' = {}
                     /\ UNCHANGED <<storeExists, store, origin>>]_vars

\* A second run in a row has ended on the empty pool.
C8_Witness ==
    \E p \in Procs :
        /\ runs >= 2
        /\ arrived = {}
        /\ Ended(p) /\ message[p] = "no_files" /\ exitCode[p] = 0
        /\ store \in StoreTemplates

\* C9: at the end of a run over several sources of which one could not be
\* read, every other source of the run that can be read has been copied
\* into the store once and removed from the pool.
C9_FailureNotFatal ==
    \A p \in Procs :
        (/\ Ended(p) /\ message[p] = "merged_all"
         /\ \E g \in Listed(p) : g \in unreadable) =>
            \A f \in Listed(p) \ unreadable :
                /\ appends[f] = 1
                /\ f \notin pool
                /\ Cardinality(CopiedFrom(f)) = Len(Copied(script[p], f))

\* A run has ended whose first source failed and whose second was merged.
C9_Witness ==
    \E p \in Procs :
        /\ Ended(p) /\ Len(files[p]) = 2
        /\ files[p][1] \in unreadable
        /\ files[p][2] \notin unreadable
        /\ appends[files[p][2]] = 1
        /\ files[p][2] \notin pool

\* C10: a run in which a source failed to merge does not end reporting that
\* all sources were merged and the pool cleared.
C10_ErrorsSurfaced ==
    \A p \in Procs :
        (Ended(p) /\ failed[p] # {}) => message[p] # "merged_all"

IsPrefix(s, u) == Len(s) <= Len(u) /\ SubSeq(u, 1, Len(s)) = s
\* The rows and header lines of a text, its line terminators left out.
Records(s) == SelectSeq(s, LAMBDA e : e # NL)

\* C11: the store is append-only: every step of a run leaves the store as
\* it was or with new elements after the old ones, so the store before a run
\* is a prefix of the store after it.
C11_AppendOnly ==
    [][IsPrefix(store, store') /\ IsPrefix(origin, origin')]_vars

\* A run has ended that appended a source to a store that held a source.
C11_Witness ==
    \E p \in Procs :
        /\ Ended(p) /\ mutated[p] /\ runs >= 2
        /\ base[p] > 2
        /\ Len(store) > base[p] + 1

\* C12: no two runs are in flight together: while one run is in flight no
\* other run has listed the pool or is appending.
C12_MutualExclusion ==
    \A p, q \in Procs :
        (p # q /\ InFlight(p)) =>
            pc[q] \notin {"glob", "copy", "echo", "rm", "final"}

\* C13: the text a page fetched while a run was in flight holds the records
\* the store held before the run or the records it holds after the run.
C13_ReaderSeesWholeRuns ==
    \A p \in Procs :
        (snapRun > 0 /\ snapRun = runs /\ Ended(p)) =>
            \/ Records(snapshot) = Records(SubSeq(store, 1, base[p]))
            \/ Records(snapshot) = Records(store)

\* ------------------------------------------------------ the filter on show
SelYear == ParseInt(yearSelect.value)
SelMonth == IF monthSelect.value = "all" THEN NaN ELSE ParseInt(monthSelect.value)
SelRange == ParseInt(rangeSelect.value)

\* The page is set up and no updateCharts call is in flight.
Shown == page = "ready" /\ Quiet

RowsAt(P(_)) == {i \in DOMAIN table : P(table[i])}

RECURSIVE BucketSum(_)
BucketSum(buckets) ==
    IF buckets = <<>> THEN 0
    ELSE Head(buckets).rounds + BucketSum(Tail(buckets))

RECURSIVE HourSum(_, _)
\* The sum of profile over the hours 0..h.
HourSum(profile, h) ==
    IF h < 0 THEN 0 ELSE profile[h] + HourSum(profile, h - 1)

\* The bucket width the filter on show asks for.
Granularity ==
    IF SelRange # NaN THEN "day"
    ELSE IF SelMonth # NaN THEN "day"
    ELSE "week"

\* C14: the bucket width is a function of the filter: a trailing range gives
\* day buckets, else a month gives day buckets, else week buckets, whatever
\* the year; a call fetches weekly rows only for a filter with neither.
C14_GranularityByFilter ==
    page = "ready" =>
        /\ \A c \in Calls : uc[c].pc = "weekly" => Granularity = "week"
        /\ (\A c \in Calls : uc[c].pc # "weekly") =>
              \A j \in DOMAIN combinedChart :
                  combinedChart[j].kind = Granularity

\* A trailing range over a year that has records, shown in day buckets.
C14_Witness ==
    /\ Shown /\ SelRange = 3 /\ SelYear = 2024
    /\ \E i \in DOMAIN table : table[i].year = 2024
    /\ combinedChart # <<>>
    /\ \A j \in DOMAIN combinedChart : combinedChart[j].kind = "day"

\* C15: with a trailing range set, the buckets and the hourly profile on
\* show are those of the same range under every other year of the year
\* selector.
C15_RangeOverridesDiscrete ==
    (Shown /\ ~rejected /\ SelRange # NaN) =>
        \A y \in yearSelect.options :
            /\ combinedChart =
                 ChartData(FilteredData(table, ParseInt(y), SelMonth, SelRange))
            /\ hourlyChart =
                 HourlyRounds(ZeroFill,
                     HourlyData(table, ParseInt(y), SelMonth, SelRange))

\* C16: with a year selected, in year, month and range mode alike, the 24
\* hourly counts on show add up to what the bucket counts on show add up to.
C16_HourlySameFilter ==
    (Shown /\ ~rejected /\ SelYear # NaN) =>
        HourSum(hourlyChart, 23) = BucketSum(combinedChart)

\* The day the trailing range on show starts at: the latest day of the table
\* moved back by the range, as Date.setMonth moves it.
StartDay ==
    SetMonthBack(
        CHOOSE k \in {DayKey(table[i]) : i \in DOMAIN table} :
            \A i \in DOMAIN table : DayKey(table[i]) <= k,
        SelRange)

\* The latest timestamp of the table, as <<day, hour>>.
LatestStamp ==
    CHOOSE s \in {<<DayKey(table[i]), table[i].hour>> : i \in DOMAIN table} :
        \A i \in DOMAIN table :
            \/ DayKey(table[i]) < s[1]
            \/ DayKey(table[i]) = s[1] /\ table[i].hour <= s[2]

InYearMonth(r) ==
    r.year = SelYear /\ (SelMonth = NaN \/ r.month = SelMonth)

\* The predicate of the filter on show, the range taken to the timestamp:
\* on or after the latest timestamp moved back by the range.
MatchesByStamp(r) ==
    IF SelRange # NaN
    THEN LET start == SetMonthBack(LatestStamp[1], SelRange)
         IN \/ DayKey(r) > start
            \/ DayKey(r) = start /\ r.hour >= LatestStamp[2]
    ELSE InYearMonth(r)

\* The predicate of the filter on show, the range taken to the calendar day.
MatchesByDay(r) ==
    IF SelRange # NaN THEN DayKey(r) >= StartDay ELSE InYearMonth(r)

RECURSIVE ValueSum(_)
\* The sum of value over the rows of the table at the positions I.
ValueSum(I) ==
    IF I = {} THEN 0
    ELSE LET i == CHOOSE i \in I : TRUE
         IN table[i].value + ValueSum(I \ {i})

\* C18: with a month filter on show there is one day bucket for each date
\* that has a record of the selected year and month, in the order of the
\* dates; its count is the number of those records on that date and its
\* total the sum of their values; and entry h of the hourly profile is the
\* number of records of the selected year and month whose hour is h.
C18_PerBucketAggregation ==
    (Shown /\ SelRange = NaN /\ SelMonth # NaN) =>
        LET M == RowsAt(InYearMonth)
            On(k) == {i \in M : DayKey(table[i]) = k}
        IN /\ {combinedChart[j].label : j \in DOMAIN combinedChart}
                = {DayKey(table[i]) : i \in M}
           /\ \A j \in DOMAIN combinedChart :
                 /\ combinedChart[j].kind = "day"
                 /\ combinedChart[j].rounds
                       = Cardinality(On(combinedChart[j].label))
                 /\ combinedChart[j].totalValue
                       = ValueSum(On(combinedChart[j].label))
                 /\ \A k \in DOMAIN combinedChart :
                       j < k => combinedChart[j].label < combinedChart[k].label
           /\ \A h \in 0..23 :
                 hourlyChart[h] = Cardinality({i \in M : table[i].hour = h})

\* The records of 2024-01-01 03:00 (value 12) and 06:10 (value 13) under the
\* filter year 2024, month 1: one bucket with count 2 and total 25, the
\* hours 3 and 6 at 1 and every other hour at 0.
C18_Witness ==
    /\ Shown /\ SelYear = 2024 /\ SelMonth = 1 /\ SelRange = NaN
    /\ table = <<Rec(2024, 1, 1, 3, 12), Rec(2024, 1, 1, 6, 13)>>
    /\ combinedChart = <<[kind |-> "day", label |-> 20240101,
                          rounds |-> 2, totalValue |-> 25]>>
    /\ \A h \in 0..23 : hourlyChart[h] = IF h \in {3, 6} THEN 1 ELSE 0

\* The filter on show, a selector that selects nothing leaving every record in.
MatchesSelected(r) ==
    IF SelRange # NaN THEN DayKey(r) >= StartDay
    ELSE /\ SelYear = NaN \/ r.year = SelYear
         /\ SelMonth = NaN \/ r.month = SelMonth

\* C19: the hourly profile always has exactly the 24 entries 0..23, each a
\* natural number, and once a query has ended every hour at which no record
\* of the filter on show lies is 0.
C19_HourZeroFill ==
    /\ DOMAIN hourlyChart = 0..23
    /\ \A h \in 0..23 : hourlyChart[h] \in Nat
    /\ Shown =>
          \A h \in 0..23 :
              (\A i \in RowsAt(MatchesSelected) : table[i].hour # h)
                  => hourlyChart[h] = 0

\* A query has ended whose profile has hours with records and hours without,
\* over a table that holds a record the filter leaves out.
C19_Witness ==
    /\ Shown /\ SelYear # NaN
    /\ \E h \in 0..23 : hourlyChart[h] > 0
    /\ \E i \in DOMAIN table :
          ~MatchesSelected(table[i]) /\ hourlyChart[table[i].hour] = 0

\* C20: when no record matches the filter on show (an empty store, a year
\* or a month without records, any range), the last query ended without an
\* error, the buckets are empty and the hourly profile is 24 zeros.
C20_NeverFails ==
    (Shown /\ (SelRange # NaN \/ SelYear # NaN)
           /\ RowsAt(MatchesByDay) = {}) =>
        /\ ~rejected
        /\ combinedChart = <<>>
        /\ \A h \in 0..23 : hourlyChart[h] = 0

\* The latest year that has a record.
MaxYear ==
    CHOOSE y \in {table[i].year : i \in DOMAIN table} :
        \A i \in DOMAIN table : table[i].year <= y

\* C21: when loadData sets up the page over a store that is not empty, the
\* year selected for the initial query is the latest year of any record.
C21_YearDefaultsToLatest ==
    [][(page = "start" /\ page' = "ready" /\ table # <<>>)
          => SelYear' = MaxYear]_vars

\* C22: what the charts show once a query has ended is a function of the
\* table and of the filter on show alone, whatever filters were on show
\* before: the buckets and the hourly profile are those a query computes
\* from the table and the filter.
C22_Stateless ==
    Shown =>
        /\ combinedChart =
              ChartData(FilteredData(table, SelYear, SelMonth, SelRange))
        /\ hourlyChart =
              HourlyRounds(ZeroFill,
                  HourlyData(table, SelYear, SelMonth, SelRange))

\* A filter reached by at least a year change and a month change after the
\* initial query (which ran with year 2025 and every month), over a table
\* whose earlier results had other hours and other buckets.
C22_Witness ==
    /\ Shown /\ SelYear = 2024 /\ SelMonth = 1 /\ SelRange = NaN
    /\ "2025" \in yearSelect.options
    /\ combinedChart # <<>>
    /\ \E i \in DOMAIN table :
          table[i].year = 2025 /\ hourlyChart[table[i].hour] = 0

\* The week of the year counted from January 1: days 1..7 are week 1,
\* days 8..14 week 2, and so on.
WeekFromJan1(r) == ((DayOfYear(r.year, r.month, r.day) - 1) \div 7) + 1

\* C23: with week buckets on show, every record of the selected year is
\* counted in the bucket whose key is the year and the week counted in
\* 7-day spans from January 1.
C23_WeekFromFirstDay ==
    (Shown /\ Granularity = "week") =>
        \A i \in DOMAIN table :
            table[i].year = SelYear =>
                \E j \in DOMAIN combinedChart :
                    /\ combinedChart[j].kind = "week"
                    /\ combinedChart[j].label
                          = table[i].year * 100 + WeekFromJan1(table[i])

\* C24: at most one invocation of updateCharts is in flight.
C24_NonReentrant ==
    \A c, d \in Calls :
        (uc[c].pc # "idle" /\ uc[d].pc # "idle") => c = d

\* C28: once no updateCharts call is in flight, the combined chart and the
\* hourly chart show the result for the filter selected last, also when
\* calls for earlier filters were still in flight at the time it was selected.
C28_LatestFilterWins ==
    (page = "ready" /\ SelYear # NaN /\ \A c \in Calls : uc[c].pc = "idle") =>
        /\ combinedChart =
              ChartData(FilteredData(table, SelYear, SelMonth, SelRange))
        /\ hourlyChart =
              HourlyRounds(ZeroFill,
                  HourlyData(table, SelYear, SelMonth, SelRange))

\* Run p ends with this step.
Terminates(p) == InFlight(p) /\ pc'[p] = "done"

\* The pool is empty and every source the run listed was copied once.
AllConsolidated(p) ==
    /\ pool' = {}
    /\ \A f \in Files : f \in Listed(p) => appends'[f] = 1

\* C25 as stated: every run ends, and a run in which no copy failed and
\* during which no source arrived ends with the pool empty and each source
\* it found copied exactly once.
C25_TerminatesAndClears ==
    /\ \A p \in Procs : InFlight(p) ~> Ended(p)
    /\ [][\A p \in Procs :
            (Terminates(p) /\ failed[p] = {} /\ ~added[p])
                => AllConsolidated(p)]_vars

\* C25 amended: every run ends, and a run that found the store, in which no
\* copy failed and during which no source arrived ends with the pool empty
\* and each source it found copied exactly once.
C25_TerminatesAndClearsWithStore ==
    /\ \A p \in Procs : InFlight(p) ~> Ended(p)
    /\ [][\A p \in Procs :
            (Terminates(p) /\ message'[p] # "missing_store"
                           /\ failed[p] = {} /\ ~added[p])
                => AllConsolidated(p)]_vars

\* A run over two sources has ended: both were copied once and the pool is
\* empty.
C25_Witness ==
    \E p \in Procs :
        /\ Ended(p) /\ message[p] = "merged_all"
        /\ Len(files[p]) = 2 /\ failed[p] = {}
        /\ arrived = Listed(p) /\ pool = {}
        /\ \A f \in Listed(p) : appends[f] = 1

\* The store as it was before any run wrote to it.
Original == SelectSeq([i \in 1..Len(store) |-> <<store[i], origin[i]>>],
                      LAMBDA e : e[2] = "store")

\* Every row or header line of s is followed by a line terminator or ends s.
WholeLines(s) ==
    \A i \in 1..(Len(s) - 1) : s[i] # NL => s[i + 1] = NL

\* C26: when the store the runs started from ended with a line terminator,
\* no line of the store holds more than one row or header line, whichever
\* scripts ran and whether or not the sources end with a newline.
C26_RowsNotGlued ==
    (Original # <<>> /\ Original[Len(Original)][1] = NL)
        => WholeLines(store)

\* A source without a final newline (a.csv) was copied and another source
\* was copied after it.
C26_Witness ==
    /\ Original # <<>> /\ Original[Len(Original)][1] = NL
    /\ \E i, j \in 1..Len(store) :
          /\ i < j
          /\ origin[i] = "a.csv"
          /\ origin[j] \in Files \ {"a.csv"}
          /\ store[j] # NL

\* C27: after any year, month and range change events the year and the month
\* selector are disabled exactly when a trailing range is selected, and the
\* month selection is 'all' whenever a trailing range is selected.
C27_FilterControls ==
    /\ yearSelect.disabled <=> rangeSelect.value # ""
    /\ monthSelect.disabled <=> rangeSelect.value # ""
    /\ rangeSelect.value # "" => monthSelect.value = "all"

====
